---- MODULE Spec2Model ----
(***************************************************************************)
(* A model of the NeRF architecture of src/models.py (Siren, Mapping,     *)
(* NeRF) and of the preset loader of src/config.py (load_config).         *)
(*                                                                         *)
(* A tensor of shape (B, w) is modelled by its last axis: a sequence of w  *)
(* cells.  A cell records how the column was computed: the last           *)
(* elementwise function applied (f), the frequency it was scaled by       *)
(* (num/den), the module that produced it (mod, pos), its index in that   *)
(* module's output (u), and the input columns, with their values, that it *)
(* was computed from (reads).  With the weights fixed, two cells that are *)
(* equal hold the same number.                                            *)
(***************************************************************************)
EXTENDS Integers, Sequences, FiniteSets, TLC

VARIABLES
    args,       \* arguments of the NeRF constructor call
    model,      \* the NeRF object (self)
    frame,      \* the forward call in flight: its position, arguments and locals
    prev,       \* the caller's record of the previous completed forward call
    enc,        \* a stand-alone Mapping object
    enc_call,   \* the Mapping.forward call: its argument and result
    presets,    \* config.py: the defaults of the three preset classes
    confs       \* the configurations returned by the load_config calls so far

vars == <<args, model, frame, prev, enc, enc_call, presets, confs>>

nerfVars == <<args, model, frame, prev>>
encVars == <<enc, enc_call>>
confVars == <<presets, confs>>

\* ---------------------------------------------------------------- bounds
MaxLayers == 2
MaxFeat == 2
MaxDim == 1
MaxFreqs == 1
MaxCalls == 3

\* ------------------------------------------------------------- exceptions
\* torch raises RuntimeError when split sizes do not sum to the width, or when
\* a linear layer's in_features differs from the input's width.
ShapeMismatch == "ShapeMismatch"

\* ----------------------------------------------------------------- cells
Pow2(n) == 2 ^ n

RECURSIVE Flatten(_)
\* torch.cat(list, -1)
Flatten(ts) == IF ts = <<>> THEN <<>> ELSE Head(ts) \o Flatten(Tail(ts))

\* column c of an input tensor named src, holding value v
RawCell(src, c, v) ==
    [f |-> "id", num |-> 1, den |-> 1, mod |-> src, pos |-> 0, u |-> c,
     reads |-> {<<src, c, v>>}]

\* an input tensor named src whose columns hold vals
Tensor(src, vals) == [c \in 1..Len(vals) |-> RawCell(src, c, vals[c])]

\* func(freq * t), elementwise
Elementwise(func, freq, t) ==
    [c \in 1..Len(t) |-> [t[c] EXCEPT !.f = func, !.num = freq.num, !.den = freq.den]]

One == [num |-> 1, den |-> 1]

\* ----------------------------------------------------------------- Siren
SirenForward(input) == Elementwise("siren", [num |-> 30, den |-> 1], input)

\* --------------------------------------------------------------- Mapping
\* self.funcs = [torch.sin, torch.cos]
funcs == <<"sin", "cos">>

\* self.freq_bands, each band a fraction num/den:
\*   logscale: 2**linspace(0, N-1, N)      = 2^k
\*   else:     linspace(1, 2**(N-1), N)    = 1 + k*(2^(N-1) - 1)/(N - 1)
FreqBands(N_freqs, logscale) ==
    [k \in 1..N_freqs |->
        IF logscale THEN [num |-> Pow2(k - 1), den |-> 1]
        ELSE IF N_freqs = 1 THEN [num |-> 1, den |-> 1]
        ELSE [num |-> (N_freqs - 1) + (k - 1) * (Pow2(N_freqs - 1) - 1),
              den |-> N_freqs - 1]]

\* Mapping.__init__
MappingInit(mapping_size, in_size, logscale) ==
    [kind |-> "Mapping",
     N_freqs |-> mapping_size,
     in_channels |-> in_size,
     funcs |-> funcs,
     out_channels |-> in_size * (Len(funcs) * mapping_size + 1),
     freq_bands |-> FreqBands(mapping_size, logscale)]

\* A reordering of the blocks: outer loop over the functions, inner over the bands.
MappingForwardFuncMajor(self, t) ==
    Flatten([n \in 1..(Len(self.funcs) * Len(self.freq_bands)) |->
        Elementwise(self.funcs[((n - 1) \div Len(self.freq_bands)) + 1],
                    self.freq_bands[((n - 1) % Len(self.freq_bands)) + 1], t)])

\* Mapping.forward: for freq in freq_bands: for func in funcs: out += [func(freq*x)]
MappingForward(self, t) ==
    Flatten([n \in 1..(Len(self.freq_bands) * Len(self.funcs)) |->
        Elementwise(self.funcs[((n - 1) % Len(self.funcs)) + 1],
                    self.freq_bands[((n - 1) \div Len(self.funcs)) + 1], t)])

\* the Siren() objects that stand in for the encoders when mapping is off
SirenInit == [kind |-> "Siren"]

\* self.mapping[b](t)
Encode(encoder, t) ==
    IF encoder.kind = "Mapping" THEN MappingForward(encoder, t) ELSE SirenForward(t)

\* --------------------------------------------------------- torch modules
\* torch.nn.Linear(in_features, out_features)
Linear(in_features, out_features) ==
    [kind |-> "Linear", in_features |-> in_features, out_features |-> out_features]

\* an activation module: "relu", "siren", "softplus" or "sigmoid"
Activation(name) == [kind |-> name, in_features |-> 0, out_features |-> 0]

\* A module's result: a tensor, or the exception it raised.
Ok(t) == [err |-> "none", t |-> t]
Raise(e) == [err |-> e, t |-> <<>>]

\* Applying module number pos of the Sequential named mod to tensor t. A Linear
\* raises unless the tensor's width is its in_features; each of its outputs is
\* computed from every input column. An activation acts elementwise.
Apply(m, mod, pos, t) ==
    IF m.kind = "Linear"
    THEN IF Len(t) # m.in_features THEN Raise(ShapeMismatch)
         ELSE Ok([j \in 1..m.out_features |->
                    [f |-> "id", num |-> 1, den |-> 1, mod |-> mod, pos |-> pos,
                     u |-> j, reads |-> UNION {t[c].reads : c \in 1..Len(t)}]])
    ELSE Ok(Elementwise(m.kind,
                        IF m.kind = "siren" THEN [num |-> 30, den |-> 1] ELSE One, t))

RECURSIVE Sequential(_, _, _, _)
\* torch.nn.Sequential(*mods)(t): the modules from number pos on, in order
Sequential(mods, mod, pos, t) ==
    IF pos > Len(mods) THEN Ok(t)
    ELSE LET r == Apply(mods[pos], mod, pos, t)
         IN  IF r.err # "none" THEN r ELSE Sequential(mods, mod, pos + 1, r.t)

\* ----------------------------------------------------------- NeRF.__init__
\* in_size: the widths of the encoded xyz and dir inputs
InSize(input_sizes, mapping, mapping_sizes) ==
    IF mapping THEN [b \in 1..2 |-> 2 * mapping_sizes[b] * input_sizes[b]]
    ELSE input_sizes

\* A trunk whose skip layers are sized from the raw xyz width.
TrunkLinearRawSkip(l, feat, skips, in_size, input_sizes) ==
    IF l = 0 THEN Linear(in_size[1], feat)
    ELSE IF l \in skips THEN Linear(feat + input_sizes[1], feat)
    ELSE Linear(feat, feat)

\* the Linear of trunk layer l (0-based)
TrunkLinear(l, feat, skips, in_size, input_sizes) ==
    IF l = 0 THEN Linear(in_size[1], feat)
    ELSE IF l \in skips THEN Linear(feat + in_size[1], feat)
    ELSE Linear(feat, feat)

\* NeRF.__init__: no argument in the ranges modelled makes it raise
NeRFInit(a) ==
    LET nl == Activation(IF a.siren THEN "siren" ELSE "relu")
        in_size == InSize(a.input_sizes, a.mapping, a.mapping_sizes)
    IN  [constructed |-> TRUE,
         layers |-> a.layers,
         skips |-> a.skips,
         input_sizes |-> a.input_sizes,
         mapping |-> IF a.mapping
                     THEN [b \in 1..2 |->
                             MappingInit(a.mapping_sizes[b], a.input_sizes[b], TRUE)]
                     ELSE <<SirenInit, SirenInit>>,
         fc_net |-> [n \in 1..(2 * a.layers) |->
                       IF n % 2 = 1
                       THEN TrunkLinear((n - 1) \div 2, a.feat, a.skips, in_size,
                                        a.input_sizes)
                       ELSE nl],
         sigma_from_xyz |-> <<Linear(a.feat, 1), Activation("softplus")>>,
         feats_from_xyz |-> <<Linear(a.feat, a.feat), nl>>,
         rgb_from_xyzdir |-> <<Linear(a.feat + in_size[2], a.feat \div 2), nl,
                               Linear(a.feat \div 2, 3), Activation("sigmoid")>>]

\* the arguments a constructor call may be given; skips, a list the code only
\* tests membership in ("i in skips"), is a set
CtorArgs ==
    [layers : 1..MaxLayers,
     feat : 1..MaxFeat,
     input_sizes : (1..MaxDim) \X (0..MaxDim),
     skips : SUBSET (0..MaxLayers),
     siren : BOOLEAN,
     mapping : BOOLEAN,
     mapping_sizes : (1..MaxFreqs) \X (1..MaxFreqs)]

\* ------------------------------------------------------------ NeRF.forward
\* An optional tensor argument: <<>> is None, <<t>> is the tensor t.
None == <<>>
Some(t) == <<t>>

\* Slicing instead of torch.split: x[..., :a] and x[..., a:a+b], which accept a
\* tensor that is too wide.
SplitBySlicing(self, t) ==
    LET a == self.input_sizes[1]
        b == self.input_sizes[2]
        hi(n) == IF n < Len(t) THEN n ELSE Len(t)
    IN  [err |-> "none", xyz |-> SubSeq(t, 1, hi(a)), dir |-> SubSeq(t, hi(a) + 1, hi(a + b))]

\* The two parts taken in the wrong order: the direction columns first.
SplitDirFirst(self, t) ==
    LET a == self.input_sizes[1]
        b == self.input_sizes[2]
    IN  IF Len(t) # a + b
        THEN [err |-> ShapeMismatch, xyz |-> <<>>, dir |-> <<>>]
        ELSE [err |-> "none", xyz |-> SubSeq(t, b + 1, a + b), dir |-> SubSeq(t, 1, b)]

\* torch.split(x, [input_sizes[0], input_sizes[1]], dim=-1): raises unless the
\* sizes sum to the width of x
TorchSplit(self, t) ==
    LET a == self.input_sizes[1]
        b == self.input_sizes[2]
    IN  IF Len(t) # a + b
        THEN [err |-> ShapeMismatch, xyz |-> <<>>, dir |-> <<>>]
        ELSE [err |-> "none", xyz |-> SubSeq(t, 1, a), dir |-> SubSeq(t, a + 1, a + b)]

\* The output with sigma first.
CatOutSigmaFirst(rgb, sig) == sig \o rgb

\* out = torch.cat([rgb, sigma], -1)
CatOut(rgb, sig) == rgb \o sig

\* "compute color": feats_from_xyz, the concatenation with the encoded
\* direction, rgb_from_xyzdir and the final concatenation with sigma
ColorHead(self, shared_features, dir, sig) ==
    LET xyz_features == Sequential(self.feats_from_xyz, "feats_from_xyz", 1,
                                   shared_features)
    IN  IF xyz_features.err # "none" THEN xyz_features
        ELSE LET input_xyzdir ==
                     IF self.input_sizes[2] > 0
                     THEN xyz_features.t \o Encode(self.mapping[2], dir[1])
                     ELSE xyz_features.t
                 rgb == Sequential(self.rgb_from_xyzdir, "rgb_from_xyzdir", 1,
                                   input_xyzdir)
             IN  IF rgb.err # "none" THEN rgb ELSE Ok(CatOut(rgb.t, sig))

\* One trunk layer: fc_net[2*l] (the Linear) and fc_net[2*l + 1] (the activation)
TrunkLayer(self, l, t) ==
    LET r == Apply(self.fc_net[2 * l + 1], "fc_net", 2 * l, t)
    IN  IF r.err # "none" THEN r
        ELSE Apply(self.fc_net[2 * l + 2], "fc_net", 2 * l + 1, r.t)

\* No call in flight. arg_input_dir keeps the input_dir the call was given; the
\* local input_dir is reassigned by the split.
Idle ==
    [pc |-> "idle", x |-> <<>>, arg_input_dir |-> None, input_dir |-> None,
     sigma_only |-> FALSE, input_xyz |-> <<>>, xyz_ |-> <<>>, i |-> 0, sigma |-> <<>>, out |-> <<>>,
     raised |-> "none"]

\* forward(x, input_dir=d, sigma_only=so) entered
Enter(t, d, so) ==
    [Idle EXCEPT !.pc = "split", !.x = t, !.arg_input_dir = d, !.input_dir = d,
                 !.sigma_only = so]

\* an exception leaves the call
Throw(fr, e) == [fr EXCEPT !.pc = "raised", !.raised = e]

\* lines 129-132
DoSplit(self, fr) ==
    IF ~fr.sigma_only /\ self.input_sizes[2] > 0
    THEN LET r == TorchSplit(self, fr.x)
         IN  IF r.err # "none" THEN Throw(fr, r.err)
             ELSE [fr EXCEPT !.pc = "encode", !.input_xyz = r.xyz,
                             !.input_dir = Some(r.dir)]
    ELSE [fr EXCEPT !.pc = "encode", !.input_xyz = fr.x]

\* lines 135-136
DoEncode(self, fr) ==
    LET e == Encode(self.mapping[1], fr.input_xyz)
    IN  [fr EXCEPT !.pc = "loop", !.input_xyz = e, !.xyz_ = e, !.i = 0]

\* lines 137-139 and 142: the loop test and the skip concatenation
DoLoop(self, fr) ==
    IF fr.i < self.layers
    THEN [fr EXCEPT !.pc = "layer",
                    !.xyz_ = IF fr.i \in self.skips THEN fr.input_xyz \o fr.xyz_
                             ELSE fr.xyz_]
    ELSE [fr EXCEPT !.pc = "sigma"]

\* lines 140-141
DoLayer(self, fr) ==
    LET r == TrunkLayer(self, fr.i, fr.xyz_)
    IN  IF r.err # "none" THEN Throw(fr, r.err)
        ELSE [fr EXCEPT !.pc = "loop", !.xyz_ = r.t, !.i = fr.i + 1]

\* lines 145-147
DoSigma(self, fr) ==
    LET r == Sequential(self.sigma_from_xyz, "sigma_from_xyz", 1, fr.xyz_)
    IN  IF r.err # "none" THEN Throw(fr, r.err)
        ELSE IF fr.sigma_only THEN [fr EXCEPT !.pc = "done", !.sigma = r.t, !.out = r.t]
        ELSE [fr EXCEPT !.pc = "color", !.sigma = r.t]

\* lines 150-159
DoColor(self, fr) ==
    LET r == ColorHead(self, fr.xyz_, fr.input_dir, fr.sigma)
    IN  IF r.err # "none" THEN Throw(fr, r.err)
        ELSE [fr EXCEPT !.pc = "done", !.out = r.t]

\* the next statement of forward
Step(self, fr) ==
    CASE fr.pc = "split" -> DoSplit(self, fr)
      [] fr.pc = "encode" -> DoEncode(self, fr)
      [] fr.pc = "loop" -> DoLoop(self, fr)
      [] fr.pc = "layer" -> DoLayer(self, fr)
      [] fr.pc = "sigma" -> DoSigma(self, fr)
      [] fr.pc = "color" -> DoColor(self, fr)
      [] OTHER -> fr

RECURSIVE Run(_, _)
\* forward run to its return or its exception
Run(self, fr) ==
    IF fr.pc \in {"idle", "done", "raised"} THEN fr ELSE Run(self, Step(self, fr))

\* forward(x, input_dir=d, sigma_only=so) as a function of its arguments
Forward(self, t, d, so) == Run(self, Enter(t, d, so))

\* the caller's record of a completed call; NoCall before there is one
NoCall == [called |-> FALSE, x |-> <<>>, raised |-> "none", out |-> <<>>]

\* --------------------------------------------------------- NeRF: actions
\* NeRF(...): the constructor call
Construct ==
    /\ ~model.constructed
    /\ \E a \in CtorArgs :
          /\ args' = a
          /\ model' = NeRFInit(a)
    /\ UNCHANGED <<frame, prev, encVars, confVars>>

\* a tensor of shape (B, w) of zeros, named src
Zeros(src, w) == Tensor(src, [c \in 1..w |-> 0])

\* the widths of the tensors passed as x, and as input_dir
XWidths == 0..(2 * MaxDim + 1)
DirWidths == 0..(MaxDim + 1)

\* model.forward(x, sigma_only=so) is called
Call ==
    /\ model.constructed
    /\ frame.pc = "idle"
    /\ \E w \in XWidths, so \in BOOLEAN : frame' = Enter(Zeros("x", w), None, so)
    /\ UNCHANGED <<args, model, prev, encVars, confVars>>

\* model.forward(x, input_dir=d, sigma_only=so) is called
CallWithDir ==
    /\ model.constructed
    /\ frame.pc = "idle"
    /\ \E w \in XWidths, dw \in DirWidths, so \in BOOLEAN :
          frame' = Enter(Zeros("x", w), Some(Zeros("input_dir", dw)), so)
    /\ UNCHANGED <<args, model, prev, encVars, confVars>>

StepSplit ==
    /\ frame.pc = "split"
    /\ frame' = DoSplit(model, frame)
    /\ UNCHANGED <<args, model, prev, encVars, confVars>>

StepEncode ==
    /\ frame.pc = "encode"
    /\ frame' = DoEncode(model, frame)
    /\ UNCHANGED <<args, model, prev, encVars, confVars>>

StepLoop ==
    /\ frame.pc = "loop"
    /\ frame' = DoLoop(model, frame)
    /\ UNCHANGED <<args, model, prev, encVars, confVars>>

StepLayer ==
    /\ frame.pc = "layer"
    /\ frame' = DoLayer(model, frame)
    /\ UNCHANGED <<args, model, prev, encVars, confVars>>

StepSigma ==
    /\ frame.pc = "sigma"
    /\ frame' = DoSigma(model, frame)
    /\ UNCHANGED <<args, model, prev, encVars, confVars>>

StepColor ==
    /\ frame.pc = "color"
    /\ frame' = DoColor(model, frame)
    /\ UNCHANGED <<args, model, prev, encVars, confVars>>

\* the call is over (a return or an exception) and its frame is dropped
Return ==
    /\ frame.pc \in {"done", "raised"}
    /\ frame' = Idle
    /\ UNCHANGED <<args, model, prev, encVars, confVars>>

\* ------------------------------------------------------ Mapping: actions
\* the values a column may hold: a value and its perturbation
Vals == {0, 1}

\* the tensors of shape (B, w) over Vals
Tensors(src, w) == {Tensor(src, vals) : vals \in [1..w -> Vals]}

\* Mapping(mapping_size, in_size, logscale) is constructed
MappingConstruct ==
    /\ enc.kind = "none"
    /\ \E mapping_size \in 1..(MaxFreqs + 2), in_size \in 1..(MaxDim + 1),
          logscale \in BOOLEAN :
          enc' = MappingInit(mapping_size, in_size, logscale)
    /\ UNCHANGED <<enc_call, nerfVars, confVars>>

\* enc.forward(x) is called and returns; forward reads no attribute but
\* freq_bands and funcs, so x may have any width
MappingCall ==
    /\ enc.kind = "Mapping"
    /\ enc_call.pc = "idle"
    /\ \E w \in 0..(MaxDim + 2) : \E t \in Tensors("x", w) :
          enc_call' = [pc |-> "done", x |-> t, out |-> MappingForward(enc, t)]
    /\ UNCHANGED <<enc, nerfVars, confVars>>

\* ---------------------------------------------------------------- config.py
\* Strings that are searched are sequences of characters.
Name_nerf == <<"n", "e", "r", "f">>
Name_s_nerf == <<"s", "-", "n", "e", "r", "f">>
Name_s_nerf_basic == Name_s_nerf \o <<"_", "b", "a", "s", "i", "c">>
Name_s_nerf_full == Name_s_nerf \o <<"_", "f", "u", "l", "l">>

\* sub in s
Contains(sub, str) ==
    \E k \in 1..(Len(str) - Len(sub) + 1) : SubSeq(str, k, k + Len(sub) - 1) = sub

\* TrainingConfig's defaults; lr is in units of 1e-4
TrainingConfig ==
    [lr |-> 5, bs |-> 1024, workers |-> 4, weight_decay |-> 0, chunk |-> 32 * 1024,
     perturb |-> 1, noise_std |-> 1, use_disp |-> FALSE, lr_scheduler |-> "cosine",
     n_epochs |-> 15]

DefaultConfig ==
    [name |-> Name_nerf, training |-> TrainingConfig, layers |-> 8, feat |-> 256,
     mapping |-> TRUE, siren |-> FALSE, n_samples |-> 64, n_importance |-> 64,
     skips |-> <<4>>, input_sizes |-> <<3, 0>>, mapping_sizes |-> <<10, 4>>]

SNerfBasicConfig ==
    [name |-> Name_s_nerf_basic, training |-> TrainingConfig, layers |-> 8,
     feat |-> 100, mapping |-> FALSE, siren |-> TRUE, n_samples |-> 64,
     n_importance |-> 64, skips |-> <<>>, input_sizes |-> <<3, 0>>,
     mapping_sizes |-> <<10, 4>>]

SNerfFullConfig ==
    [name |-> Name_s_nerf_full, training |-> TrainingConfig, layers |-> 8,
     feat |-> 100, mapping |-> FALSE, siren |-> TRUE, n_samples |-> 64,
     n_importance |-> 64, skips |-> <<>>, input_sizes |-> <<3, 0>>,
     mapping_sizes |-> <<10, 4>>]

\* the three dataclasses as the module defines them
PresetClasses == <<DefaultConfig, SNerfBasicConfig, SNerfFullConfig>>

\* config_dict: the key of each class
config_dict == <<Name_nerf, Name_s_nerf_basic, Name_s_nerf_full>>

\* A load_config that writes its overrides through to the class it was given.
LoadConfigShared(classes, config_name, dataset_name) ==
    IF ~\E k \in 1..Len(config_dict) : config_dict[k] = config_name
    THEN [err |-> "KeyError", conf |-> [name |-> <<>>], classes |-> classes]
    ELSE LET k == CHOOSE n \in 1..Len(config_dict) : config_dict[n] = config_name
             conf0 == classes[k]
             conf1 == IF Contains(Name_s_nerf, config_name)
                      THEN [conf0 EXCEPT !.training.lr = 1, !.training.bs = 256]
                      ELSE conf0
             conf2 == IF dataset_name = "blender"
                      THEN [conf1 EXCEPT !.input_sizes[2] = 3]
                      ELSE conf1
         IN  [err |-> "none", conf |-> conf2, classes |-> [classes EXCEPT ![k] = conf2]]

\* load_config(args): OmegaConf.structured(cls) builds a new configuration from
\* the class's defaults, and the overrides are written to that configuration
LoadConfig(classes, config_name, dataset_name) ==
    IF ~\E k \in 1..Len(config_dict) : config_dict[k] = config_name
    THEN [err |-> "KeyError", conf |-> [name |-> <<>>], classes |-> classes]
    ELSE LET k == CHOOSE n \in 1..Len(config_dict) : config_dict[n] = config_name
             conf0 == classes[k]
             conf1 == IF Contains(Name_s_nerf, config_name)
                      THEN [conf0 EXCEPT !.training.lr = 1, !.training.bs = 256]
                      ELSE conf0
             conf2 == IF dataset_name = "blender"
                      THEN [conf1 EXCEPT !.input_sizes[2] = 3]
                      ELSE conf1
         IN  [err |-> "none", conf |-> conf2, classes |-> classes]

\* the arguments the loader is called with
ConfigNames == {Name_nerf, Name_s_nerf_basic, Name_s_nerf_full, Name_s_nerf}
DatasetNames == {"blender", "satellite"}

\* load_config(args) is called and returns (or raises KeyError)
LoadConfigCall ==
    /\ presets # <<>>
    /\ Len(confs) < MaxCalls
    /\ \E config_name \in ConfigNames, dataset_name \in DatasetNames :
          LET r == LoadConfig(presets, config_name, dataset_name)
          IN  /\ presets' = r.classes
              /\ confs' = Append(confs, [config_name |-> config_name,
                                         dataset_name |-> dataset_name,
                                         err |-> r.err, conf |-> r.conf])
    /\ UNCHANGED <<nerfVars, encVars>>

\* ------------------------------------------------------- specifications
NoModel == [constructed |-> FALSE]

NeRFIdle ==
    /\ args = [layers |-> 0]
    /\ model = NoModel
    /\ frame = Idle
    /\ prev = NoCall

EncIdle ==
    /\ enc = [kind |-> "none"]
    /\ enc_call = [pc |-> "idle", x |-> <<>>, out |-> <<>>]

ConfIdle ==
    /\ presets = <<>>
    /\ confs = <<>>

Init == NeRFIdle /\ EncIdle /\ ConfIdle

Next ==
    \/ Construct
    \/ Call
    \/ CallWithDir
    \/ StepSplit
    \/ StepEncode
    \/ StepLoop
    \/ StepLayer
    \/ StepSigma
    \/ StepColor
    \/ Return

\* Construction of one model and forward calls on it, statement by statement.
Spec == Init /\ [][Next]_vars

\* the Mapping.forward call is over
MappingReturn ==
    /\ enc_call.pc = "done"
    /\ enc_call' = [pc |-> "idle", x |-> <<>>, out |-> <<>>]
    /\ UNCHANGED <<enc, nerfVars, confVars>>

NextMapping ==
    \/ MappingConstruct
    \/ MappingCall
    \/ MappingReturn

\* A stand-alone Mapping object and forward calls on it.
SpecMapping == Init /\ [][NextMapping]_vars

InitConfig ==
    /\ NeRFIdle
    /\ EncIdle
    /\ presets = PresetClasses
    /\ confs = <<>>

NextConfig == LoadConfigCall

\* Sequences of load_config calls.
SpecConfig == InitConfig /\ [][NextConfig]_vars

\* the models with a direction input and skips within [1, layers)
PairArgs ==
    {a \in CtorArgs : /\ a.input_sizes[2] > 0
                      /\ a.skips \subseteq 1..(a.layers - 1)}

InitPair ==
    /\ args \in PairArgs
    /\ model = NeRFInit(args)
    /\ frame = Idle
    /\ prev = NoCall
    /\ EncIdle
    /\ ConfIdle

\* model.forward(x) on a well-shaped x, run to its end
Evaluate ==
    /\ frame.pc = "idle"
    /\ \E t \in Tensors("x", model.input_sizes[1] + model.input_sizes[2]) :
          frame' = Forward(model, t, None, FALSE)
    /\ UNCHANGED <<args, model, prev, encVars, confVars>>

\* the caller keeps the call's input and result, and the frame is dropped
Keep ==
    /\ frame.pc \in {"done", "raised"}
    /\ prev' = [called |-> TRUE, x |-> frame.x, raised |-> frame.raised,
                out |-> frame.out]
    /\ frame' = Idle
    /\ UNCHANGED <<args, model, encVars, confVars>>

NextPair ==
    \/ Evaluate
    \/ Keep

\* Pairs of forward calls on one model with fixed weights.
SpecPair == InitPair /\ [][NextPair]_vars

\* ------------------------------------------------------------------ claims
\* every skip index is in [1, layers)
ValidSkips(a) == a.skips \subseteq 1..(a.layers - 1)

\* the effective (encoded) xyz width
EffXyzWidth(a) ==
    IF a.mapping THEN 2 * a.mapping_sizes[1] * a.input_sizes[1] ELSE a.input_sizes[1]

\* the width forward expects of x
ExpectedWidth(a, so) ==
    IF ~so /\ a.input_sizes[2] > 0 THEN a.input_sizes[1] + a.input_sizes[2]
    ELSE a.input_sizes[1]

\* a forward call is in flight
InCall == model.constructed /\ frame.pc # "idle"

\* C1: with layers >= 1, feat >= 2 and skips within [1, layers), a forward call
\* on a well-shaped x raises nothing; with sigma_only it returns one column, the
\* density head's output; otherwise it returns four columns, the first three the
\* three outputs of the color head, in order, and the fourth the density head's
\* output (also when dir_dim = 0).
C1_OutputLayout ==
    (/\ InCall
     /\ ValidSkips(args)
     /\ args.feat >= 2
     /\ Len(frame.x) = ExpectedWidth(args, frame.sigma_only))
    => /\ frame.pc # "raised"
       /\ (frame.pc = "done" /\ frame.sigma_only) =>
             /\ Len(frame.out) = 1
             /\ frame.out[1].mod = "sigma_from_xyz"
             /\ frame.out[1].f = "softplus"
       /\ (frame.pc = "done" /\ ~frame.sigma_only) =>
             /\ Len(frame.out) = 4
             /\ \A c \in 1..3 : /\ frame.out[c].mod = "rgb_from_xyzdir"
                                /\ frame.out[c].pos = 3
                                /\ frame.out[c].u = c
                                /\ frame.out[c].f = "sigmoid"
             /\ frame.out[4].mod = "sigma_from_xyz"
             /\ frame.out[4].f = "softplus"
             /\ <<frame.out[4]>> = frame.sigma

\* C1's case: a full forward pass has returned on a model without direction
\* input and with a skip connection.
C1_Witness ==
    /\ InCall
    /\ frame.pc = "done"
    /\ ~frame.sigma_only
    /\ args.feat >= 2
    /\ args.input_sizes[2] = 0
    /\ args.skips = {1}
    /\ args.layers = 2
    /\ Len(frame.out) = 4

\* C2: with skips within [1, layers), the model is constructed and, on a
\* well-shaped x, the activation handed to trunk layer i has the width the
\* layer's Linear was built with: the effective xyz width for i = 0, feat for
\* i > 0 outside skips, feat + the effective xyz width for i in skips.
C2_TrunkWidths ==
    /\ (args.layers > 0 /\ ValidSkips(args)) => model.constructed
    /\ (/\ InCall
        /\ ValidSkips(args)
        /\ Len(frame.x) = ExpectedWidth(args, frame.sigma_only)
        /\ frame.pc = "layer")
       => /\ Len(frame.xyz_) = model.fc_net[2 * frame.i + 1].in_features
          /\ Len(frame.xyz_) =
                IF frame.i = 0 THEN EffXyzWidth(args)
                ELSE IF frame.i \in args.skips THEN args.feat + EffXyzWidth(args)
                ELSE args.feat

\* C2's case: the call is about to apply a skip layer of a model that encodes
\* its input.
C2_Witness ==
    /\ InCall
    /\ frame.pc = "layer"
    /\ frame.i = 1
    /\ 1 \in args.skips
    /\ ValidSkips(args)
    /\ args.mapping
    /\ Len(frame.x) = ExpectedWidth(args, frame.sigma_only)
    /\ Len(frame.xyz_) = args.feat + 2 * args.mapping_sizes[1] * args.input_sizes[1]

\* C3 (as claimed): a constructor call whose skips hold 0 or an index >= layers
\* leaves no model object, so no forward call is ever entered on one.
C3_InvalidSkipsRejected ==
    (args.layers > 0 /\ ~ValidSkips(args))
    => /\ ~model.constructed
       /\ frame.pc = "idle"

\* C4: on a model with skips within [1, layers), a call whose x has another
\* width than expected raises ShapeMismatch at the split or at the first trunk
\* layer, and never reaches the heads or returns.
C4_MismatchRaises ==
    (/\ InCall
     /\ ValidSkips(args)
     /\ Len(frame.x) # ExpectedWidth(args, frame.sigma_only))
    => /\ frame.pc \in {"split", "encode", "loop", "layer", "raised"}
       /\ frame.i = 0
       /\ frame.pc = "raised" => frame.raised = ShapeMismatch

\* C4's case: a sigma_only call with a wrong width was refused by the first
\* trunk layer.
C4_Witness ==
    /\ InCall
    /\ ValidSkips(args)
    /\ frame.sigma_only
    /\ Len(frame.x) # ExpectedWidth(args, frame.sigma_only)
    /\ frame.pc = "raised"
    /\ frame.raised = ShapeMismatch
    /\ frame.xyz_ # <<>>

\* C5 (as claimed): a call given an input_dir whose width is not dir_dim never
\* returns a tensor.
C5_WrongDirRaises ==
    (/\ InCall
     /\ ValidSkips(args)
     /\ frame.arg_input_dir # None
     /\ Len(frame.arg_input_dir[1]) # args.input_sizes[2])
    => frame.pc # "done"

\* C8 (as claimed): a constructor call whose feat // 2 is not positive leaves no
\* model object.
C8_HalfWidthRejected ==
    (args.layers > 0 /\ args.feat \div 2 < 1) => ~model.constructed

\* C6 (as claimed): a Mapping's out_channels is in_channels * 2 * N_freqs, and
\* is the width of what forward returns on an input of width in_channels.
C6_OutChannels ==
    enc.kind = "Mapping"
    => /\ enc.out_channels = enc.in_channels * 2 * enc.N_freqs
       /\ (enc_call.pc = "done" /\ Len(enc_call.x) = enc.in_channels)
             => Len(enc_call.out) = enc.out_channels

\* band a is below band b
BandLess(a, b) == a.num * b.den < b.num * a.den

SamePosition ==
    SubSeq(frame.x, 1, args.input_sizes[1]) = SubSeq(prev.x, 1, args.input_sizes[1])

\* C7: on a model with a direction input, two forward calls (sigma_only false)
\* whose inputs agree on the first xyz_dim columns return the same sigma column.
C7_SigmaIgnoresDirection ==
    (/\ prev.called
     /\ prev.raised = "none"
     /\ frame.pc = "done"
     /\ args.input_sizes[2] > 0
     /\ SamePosition)
    => frame.out[4] = prev.out[4]

\* C7's case: two calls returned whose inputs differ in the direction columns
\* only; their colors differ and their sigma columns agree.
C7_Witness ==
    /\ prev.called
    /\ prev.raised = "none"
    /\ frame.pc = "done"
    /\ args.input_sizes[2] > 0
    /\ SamePosition
    /\ frame.x # prev.x
    /\ frame.out[1] # prev.out[1]
    /\ frame.out[4] = prev.out[4]

\* the class a configuration name selects
ClassOf(config_name) ==
    CASE config_name = Name_nerf -> DefaultConfig
      [] config_name = Name_s_nerf_basic -> SNerfBasicConfig
      [] config_name = Name_s_nerf_full -> SNerfFullConfig

\* C9: in any sequence of load_config calls the classes' defaults stay as
\* defined, and each call that names a preset returns that preset's defaults
\* except that lr = 1e-4 and bs = 256 exactly when the name contains 's-nerf',
\* and input_sizes[1] = 3 exactly when the dataset is 'blender' (0 otherwise).
C9_LoadConfigOverrides ==
    /\ presets = PresetClasses
    /\ \A n \in 1..Len(confs) :
          LET r == confs[n]
              known == r.config_name \in {Name_nerf, Name_s_nerf_basic, Name_s_nerf_full}
          IN  /\ (r.err = "none") <=> known
              /\ known =>
                    LET base == ClassOf(r.config_name)
                    IN  /\ (r.conf.training.lr = 1 /\ r.conf.training.bs = 256)
                              <=> Contains(Name_s_nerf, r.config_name)
                        /\ ~Contains(Name_s_nerf, r.config_name)
                              => /\ r.conf.training.lr = base.training.lr
                                 /\ r.conf.training.bs = base.training.bs
                        /\ (r.conf.input_sizes[2] = 3) <=> (r.dataset_name = "blender")
                        /\ r.dataset_name # "blender" => r.conf.input_sizes[2] = 0
                        /\ [r.conf EXCEPT !.training.lr = base.training.lr,
                                          !.training.bs = base.training.bs,
                                          !.input_sizes[2] = base.input_sizes[2]] = base

\* C9's case: a 'blender' load of a preset was followed by a load of the same
\* preset for another dataset, which got no direction input.
C9_Witness ==
    /\ Len(confs) >= 2
    /\ confs[1].config_name = Name_s_nerf_basic
    /\ confs[1].dataset_name = "blender"
    /\ confs[1].conf.input_sizes[2] = 3
    /\ confs[2].config_name = Name_s_nerf_basic
    /\ confs[2].dataset_name = "satellite"
    /\ confs[2].conf.input_sizes[2] = 0
    /\ confs[2].conf.training.lr = 1

====
